---- MODULE Spec2Model ----
(***************************************************************************)
(* Model of log_analyzer.py: the LogMetrics accumulator (update, merge),   *)
(* the line and date parsers, analyze_file's scan and bucketing decision,  *)
(* and print_report's ranked lists.                                        *)
(*                                                                         *)
(* Strings whose characters the code inspects (the request line, the       *)
(* status field) are sequences of one-character strings or digits; strings *)
(* the code only uses as dictionary keys (ip, user_agent, the date key)    *)
(* are TLA+ strings.  A Counter and a dict are insertion-ordered: a        *)
(* sequence of [k, n] (resp. [key, m]) entries with distinct keys.         *)
(* Time is counted in hours.                                               *)
(***************************************************************************)
EXTENDS Integers, Sequences, FiniteSets

VARIABLES
    pc,               \* which part of the program runs
    file,             \* analyze_file: the lines read so far
    metrics_by_date,  \* analyze_file: dict date_key -> LogMetrics
    min_ts,           \* analyze_file: earliest timestamp or None
    max_ts,           \* analyze_file: latest timestamp or None
    results,          \* what analyze_file returned
    output,           \* what print_report printed
    self,             \* a LogMetrics fed by update() alone
    data,             \* the record last given to update()
    parts,            \* LogMetrics objects, each fed a part of the records
    alive             \* the parts not yet given to merge() as argument

vars == <<pc, file, metrics_by_date, min_ts, max_ts, results, output,
          self, data, parts, alive>>

(***************************************************************************)
(* Bounds of the model.                                                    *)
(***************************************************************************)
MaxLines == 3
MaxUpdates == 2
MaxRecords == 3

(***************************************************************************)
(* Program constants.                                                      *)
(***************************************************************************)
SummaryWindow == 24
TopN == 20

None == [none |-> TRUE]

Whitespace == {" ", "\t"}

ADMIN_AJAX == <<"a","d","m","i","n","-","a","j","a","x",".","p","h","p">>

(***************************************************************************)
(* collections.Counter                                                     *)
(***************************************************************************)
CounterKeys(c) == {c[i].k : i \in 1..Len(c)}

CounterIndex(c, key) == CHOOSE i \in 1..Len(c) : c[i].k = key

\* Counter.__missing__: an absent key counts 0
CounterGet(c, key) ==
    IF key \in CounterKeys(c) THEN c[CounterIndex(c, key)].n ELSE 0

\* c[key] = v: in place for a present key, appended for a new one
CounterSet(c, key, v) ==
    IF key \in CounterKeys(c)
    THEN [c EXCEPT ![CounterIndex(c, key)] = [k |-> key, n |-> v]]
    ELSE Append(c, [k |-> key, n |-> v])

\* c[key] += d
CounterAdd(c, key, d) == CounterSet(c, key, CounterGet(c, key) + d)

IsPositive(e) == e.n > 0

\* Counter._keep_positive
keep_positive(c) == SelectSeq(c, IsPositive)

RECURSIVE AddAll(_, _, _)
AddAll(c, other, i) ==
    IF i > Len(other) THEN c
    ELSE AddAll(CounterAdd(c, other[i].k, other[i].n), other, i + 1)

\* Counter.__iadd__: c += other
CounterIAdd(c, other) == keep_positive(AddAll(c, other, 1))

CounterSum(c) ==
    LET RECURSIVE Sum(_)
        Sum(i) == IF i > Len(c) THEN 0 ELSE c[i].n + Sum(i + 1)
    IN Sum(1)

\* RankOf with equal counts in the reverse of the Counter's order
RankOf_LaterFirst(c, i) ==
    1 + Cardinality({j \in 1..Len(c) :
                        \/ c[j].n > c[i].n
                        \/ (c[j].n = c[i].n /\ j > i)})

\* the position a stable descending sort gives entry i of c
RankOf(c, i) ==
    1 + Cardinality({j \in 1..Len(c) :
                        \/ c[j].n > c[i].n
                        \/ (c[j].n = c[i].n /\ j < i)})

SortedByCount(c) ==
    [p \in 1..Len(c) |-> c[CHOOSE i \in 1..Len(c) : RankOf(c, i) = p]]

\* Counter.most_common(n): the n largest counts, descending, equal counts in
\* the order the Counter holds them
most_common(c, n) ==
    IF Len(c) <= n THEN SortedByCount(c) ELSE SubSeq(SortedByCount(c), 1, n)

(***************************************************************************)
(* str.split(), the substring test and int()                               *)
(***************************************************************************)
RECURSIVE SplitScan(_, _, _, _)
SplitScan(s, i, cur, acc) ==
    IF i > Len(s)
    THEN IF cur = <<>> THEN acc ELSE Append(acc, cur)
    ELSE IF s[i] \in Whitespace
         THEN SplitScan(s, i + 1, <<>>,
                        IF cur = <<>> THEN acc ELSE Append(acc, cur))
         ELSE SplitScan(s, i + 1, Append(cur, s[i]), acc)

\* s.split(): the maximal runs of non-whitespace characters
split(s) == SplitScan(s, 1, <<>>, <<>>)

\* needle in hay
Contains(hay, needle) ==
    \E i \in 1..(Len(hay) - Len(needle) + 1) :
        SubSeq(hay, i, i + Len(needle) - 1) = needle

RECURSIVE DecimalValue(_, _)
DecimalValue(digits, n) ==
    IF n = 0 THEN 0 ELSE 10 * DecimalValue(digits, n - 1) + digits[n]

\* int(s) of a string of decimal digits
int(digits) == DecimalValue(digits, Len(digits))

(***************************************************************************)
(* LogMetrics                                                              *)
(***************************************************************************)
\* LogMetrics.__init__
NewLogMetrics ==
    [ip_counter |-> <<>>, ua_counter |-> <<>>, uri_counter |-> <<>>,
     error_counts |-> [e \in {"4xx", "5xx"} |-> 0],
     admin_ajax_count |-> 0, total_requests |-> 0]

\* RequestUri taking the first token, the method, for the URI
RequestUri_FirstToken(request) ==
    LET request_parts == split(request)
    IN IF Len(request_parts) > 1 THEN request_parts[1] ELSE request

\* the URI update() counts a request line under
RequestUri(request) ==
    LET request_parts == split(request)
    IN IF Len(request_parts) > 1 THEN request_parts[2] ELSE request

IsAdminAjax(uri) == Contains(uri, ADMIN_AJAX)

\* Is4xx with its upper bound included
Is4xx_Through500(status) == 400 <= status /\ status <= 500

Is4xx(status) == 400 <= status /\ status < 500

Is5xx(status) == 500 <= status /\ status < 600

\* the error counter update() increments for a status, or none
ErrorClass(status) ==
    IF Is4xx(status) THEN {"4xx"}
    ELSE IF Is5xx(status) THEN {"5xx"}
    ELSE {}

\* LogMetrics.update(data): the receiver after the call
update(m, d) ==
    LET uri == RequestUri(d.request)
        status == int(d.status)
    IN [ip_counter |-> CounterAdd(m.ip_counter, d.ip, 1),
        ua_counter |-> CounterAdd(m.ua_counter, d.user_agent, 1),
        uri_counter |-> CounterAdd(m.uri_counter, uri, 1),
        error_counts |->
            [e \in {"4xx", "5xx"} |->
                IF e \in ErrorClass(status)
                THEN m.error_counts[e] + 1 ELSE m.error_counts[e]],
        admin_ajax_count |->
            IF IsAdminAjax(uri)
            THEN m.admin_ajax_count + 1 ELSE m.admin_ajax_count,
        total_requests |-> m.total_requests + 1]

\* MergedInto without line 53, the admin-ajax counter
MergedInto_DropsAdminAjax(m, other) ==
    [ip_counter |-> CounterIAdd(m.ip_counter, other.ip_counter),
     ua_counter |-> CounterIAdd(m.ua_counter, other.ua_counter),
     uri_counter |-> CounterIAdd(m.uri_counter, other.uri_counter),
     error_counts |->
        [e \in {"4xx", "5xx"} |-> m.error_counts[e] + other.error_counts[e]],
     admin_ajax_count |-> m.admin_ajax_count,
     total_requests |-> m.total_requests + other.total_requests]

\* the receiver after m.merge(other)
MergedInto(m, other) ==
    [ip_counter |-> CounterIAdd(m.ip_counter, other.ip_counter),
     ua_counter |-> CounterIAdd(m.ua_counter, other.ua_counter),
     uri_counter |-> CounterIAdd(m.uri_counter, other.uri_counter),
     error_counts |->
        [e \in {"4xx", "5xx"} |-> m.error_counts[e] + other.error_counts[e]],
     admin_ajax_count |-> m.admin_ajax_count + other.admin_ajax_count,
     total_requests |-> m.total_requests + other.total_requests]

\* a merge that moves the argument's counts out of it
MergeArgument_Drained(m, other) == NewLogMetrics

\* the argument after m.merge(other): merge only reads it
MergeArgument(m, other) == other

\* LogMetrics.merge(other): both objects after the call
merge(m, other) ==
    [receiver |-> MergedInto(m, other), argument |-> MergeArgument(m, other)]

(***************************************************************************)
(* The parsers.  A line of the file is blank after strip(), or fails       *)
(* LOG_PATTERN, or matches it and carries the captured fields.  The date   *)
(* field either has the shape "%d/%b/%Y:%H:%M:%S %z" and names a day, an   *)
(* hour and a UTC offset, or it does not.                                  *)
(***************************************************************************)
\* parse_log_line: the groupdict of a matching line, or None
parse_log_line(line) ==
    IF line.kind = "entry" THEN line.fields ELSE None

\* parse_log_date answering a fixed datetime for a date that does not parse
parse_log_date_Defaults(date_str) ==
    IF date_str.well_formed
    THEN [day |-> date_str.day, hour |-> date_str.hour, off |-> date_str.off]
    ELSE [day |-> 1, hour |-> 0, off |-> 0]

\* parse_log_date: an aware datetime, or None on ValueError
parse_log_date(date_str) ==
    IF date_str.well_formed
    THEN [day |-> date_str.day, hour |-> date_str.hour, off |-> date_str.off]
    ELSE None

\* Instant comparing wall-clock readings, the offset dropped
Instant_IgnoresOffset(ts) == ts.day * 24 + ts.hour

\* the absolute instant of an aware datetime, which <, > and - work on
Instant(ts) == (ts.day * 24 + ts.hour) - ts.off

DATE_KEYS == <<"2025-12-09", "2025-12-10", "2025-12-11">>

\* ts.strftime("%Y-%m-%d"): the date the timestamp itself shows
strftime(ts) == DATE_KEYS[ts.day]

(***************************************************************************)
(* dict date_key -> LogMetrics                                             *)
(***************************************************************************)
DictKeys(d) == {d[i].key : i \in 1..Len(d)}

DictIndex(d, key) == CHOOSE i \in 1..Len(d) : d[i].key = key

(***************************************************************************)
(* analyze_file                                                            *)
(***************************************************************************)
\* lines 86-89: the tracked minimum and maximum after a timestamp ts
TrackMin(lo, ts) ==
    IF lo = None \/ Instant(ts) < Instant(lo) THEN ts ELSE lo

TrackMax(hi, ts) ==
    IF hi = None \/ Instant(ts) > Instant(hi) THEN ts ELSE hi

\* Bucketed where the record that creates a day's aggregate is not counted
Bucketed_CreateOnly(d, ts, fields) ==
    LET date_key == strftime(ts)
    IN IF date_key \notin DictKeys(d)
       THEN Append(d, [key |-> date_key, m |-> NewLogMetrics])
       ELSE LET i == DictIndex(d, date_key)
            IN [d EXCEPT ![i] = [key |-> date_key, m |-> update(d[i].m, fields)]]

\* lines 91-94: the day's aggregate, made on first use, takes the record
Bucketed(d, ts, fields) ==
    LET date_key == strftime(ts)
        made == IF date_key \notin DictKeys(d)
                THEN Append(d, [key |-> date_key, m |-> NewLogMetrics])
                ELSE d
        i == DictIndex(made, date_key)
    IN [made EXCEPT ![i] = [key |-> date_key, m |-> update(made[i].m, fields)]]

\* one round of the loop over the file's lines, on the scan state
\* st = [metrics_by_date, min_ts, max_ts]
ProcessLine(st, line) ==
    IF line.kind = "blank" THEN st
    ELSE LET fields == parse_log_line(line)
         IN IF fields = None THEN st
            ELSE LET ts == parse_log_date(fields.date)
                 IN IF ts = None THEN st
                    ELSE [metrics_by_date |->
                              Bucketed(st.metrics_by_date, ts, fields),
                          min_ts |-> TrackMin(st.min_ts, ts),
                          max_ts |-> TrackMax(st.max_ts, ts)]

RECURSIVE FoldSummary(_, _, _)
\* lines 105-107: summary_metrics.merge(m) for each day's m, in dict order
FoldSummary(summary, d, i) ==
    IF i > Len(d) THEN [summary |-> summary, days |-> d]
    ELSE LET r == merge(summary, d[i].m)
         IN FoldSummary(r.receiver,
                        [d EXCEPT ![i] = [key |-> d[i].key, m |-> r.argument]],
                        i + 1)

\* WithinWindow with exactly 24 hours still inside
WithinWindow_Inclusive(lo, hi) ==
    lo # None /\ hi # None /\ Instant(hi) - Instant(lo) <= SummaryWindow

\* WithinWindow taking a file without timestamps for a short one
WithinWindow_NoneIsShort(lo, hi) ==
    lo = None \/ hi = None \/ Instant(hi) - Instant(lo) < SummaryWindow

\* line 103: whether the buckets collapse into "Summary"
WithinWindow(lo, hi) ==
    lo # None /\ hi # None /\ Instant(hi) - Instant(lo) < SummaryWindow

\* lines 103-110: what analyze_file returns, and the day buckets afterwards
Finish(st) ==
    IF WithinWindow(st.min_ts, st.max_ts)
    THEN LET f == FoldSummary(NewLogMetrics, st.metrics_by_date, 1)
         IN [returned |-> <<[key |-> "Summary", m |-> f.summary]>>,
             days |-> f.days]
    ELSE [returned |-> st.metrics_by_date, days |-> st.metrics_by_date]

(***************************************************************************)
(* print_report                                                            *)
(***************************************************************************)
\* what print_metrics prints for one bucket
print_metrics(title, metrics) ==
    [title |-> title,
     total_requests |-> metrics.total_requests,
     admin_ajax_count |-> metrics.admin_ajax_count,
     errors_4xx |-> metrics.error_counts["4xx"],
     errors_5xx |-> metrics.error_counts["5xx"],
     top_ips |-> most_common(metrics.ip_counter, TopN),
     top_uas |-> most_common(metrics.ua_counter, TopN),
     top_uris |-> most_common(metrics.uri_counter, TopN)]

\* the place of a key in the ascending order of strings: dates in calendar
\* order, "Summary" after every date
KeyRank(key) ==
    IF key = "Summary" THEN Len(DATE_KEYS) + 1
    ELSE CHOOSE i \in 1..Len(DATE_KEYS) : DATE_KEYS[i] = key

\* print_report: the buckets in sorted(results.keys()) order
print_report(res) ==
    LET place(i) == 1 + Cardinality({j \in 1..Len(res) :
                                        KeyRank(res[j].key) < KeyRank(res[i].key)})
    IN [p \in 1..Len(res) |->
           LET b == CHOOSE i \in 1..Len(res) : place(i) = p
           IN print_metrics(res[b].key, res[b].m)]

(***************************************************************************)
(* The inputs.                                                             *)
(***************************************************************************)
GET_ROOT == <<"G","E","T"," ","/"," ","H","T","T","P","/","1",".","1">>
GET_AJAX == <<"G","E","T"," ","/">> \o ADMIN_AJAX
                \o <<" ","H","T","T","P","/","1",".","1">>
POST_AJAX_QUERY == <<"P","O","S","T"," ","/","w","p","/">> \o ADMIN_AJAX
                       \o <<"?","a","=","1"," ","H","T","T","P">>
DASH == <<"-">>
BARE_AJAX == ADMIN_AJAX
AJAX_AS_METHOD == ADMIN_AJAX \o <<" ","/","x"," ","H","T","T","P">>
GET_TRAILING_SPACE == <<"G","E","T"," ">>
LEADING_SPACE == <<" ","/","x">>
GET_TAB == <<"G","E","T","\t","/","t">>
GET_TWO_SPACES == <<"G","E","T"," "," ","/","d">>
GET_NEAR_MISS == <<"G","E","T"," ","/","a","d","m","i","n","-","a","j","a","x",".","p","h">>

Requests ==
    {GET_ROOT, GET_AJAX, POST_AJAX_QUERY, DASH, BARE_AJAX, AJAX_AS_METHOD,
     GET_TRAILING_SPACE, LEADING_SPACE, GET_TAB, GET_TWO_SPACES,
     GET_NEAR_MISS}

Statuses ==
    {<<2,0,0>>, <<3,9,9>>, <<4,0,0>>, <<4,9,9>>, <<5,0,0>>, <<5,9,9>>,
     <<6,0,0>>, <<0,4,0,4>>, <<4,0>>}

\* the date fields of the scanned lines: 09/Dec 23:00 +0000, 10/Dec 00:00
\* +0000, 10/Dec 23:00 +0000, 11/Dec 00:00 +0100 (the instant of the third)
GoodDates ==
    {[well_formed |-> TRUE, day |-> 1, hour |-> 23, off |-> 0],
     [well_formed |-> TRUE, day |-> 2, hour |-> 0, off |-> 0],
     [well_formed |-> TRUE, day |-> 2, hour |-> 23, off |-> 0],
     [well_formed |-> TRUE, day |-> 3, hour |-> 0, off |-> 1]}

BadDate == [well_formed |-> FALSE, day |-> 0, hour |-> 0, off |-> 0]

Fields(ip, ua, request, status, date) ==
    [ip |-> ip, user_agent |-> ua, request |-> request, status |-> status,
     date |-> date]

\* the three clients of the scanned files
Client(ip, date) ==
    CASE ip = "192.168.1.1" -> Fields(ip, "UA1", GET_ROOT, <<2,0,0>>, date)
      [] ip = "10.0.0.1"    -> Fields(ip, "UA2", GET_ROOT, <<4,0,4>>, date)
      [] ip = "127.0.0.1"   -> Fields(ip, "UA1", GET_AJAX, <<5,0,3>>, date)

IPs == {"192.168.1.1", "10.0.0.1", "127.0.0.1"}

BlankLine == [kind |-> "blank"]

InvalidLine == [kind |-> "invalid"]

EntryLine(fields) == [kind |-> "entry", fields |-> fields]

LogLines ==
    {BlankLine, InvalidLine, EntryLine(Client("10.0.0.1", BadDate))}
    \cup {EntryLine(Client(ip, date)) : ip \in IPs, date \in GoodDates}

(***************************************************************************)
(* Spec: analyze_file scans a file line by line, returns, and print_report *)
(* prints what it returned.                                                *)
(***************************************************************************)
Idle == /\ self = NewLogMetrics
        /\ data = None
        /\ parts = <<>>
        /\ alive = {}

Init ==
    /\ pc = "scan"
    /\ file = <<>>
    /\ metrics_by_date = <<>>
    /\ min_ts = None
    /\ max_ts = None
    /\ results = <<>>
    /\ output = <<>>
    /\ Idle

ScanState ==
    [metrics_by_date |-> metrics_by_date, min_ts |-> min_ts, max_ts |-> max_ts]

\* the body of the loop, run on the next line of the file
Scan(line) ==
    /\ LET st == ProcessLine(ScanState, line)
       IN /\ metrics_by_date' = st.metrics_by_date
          /\ min_ts' = st.min_ts
          /\ max_ts' = st.max_ts
    /\ file' = Append(file, line)
    /\ UNCHANGED <<pc, results, output, self, data, parts, alive>>

ReadLine(line) ==
    /\ pc = "scan"
    /\ Len(file) < MaxLines
    /\ Scan(line)

EndOfFile ==
    /\ pc = "scan"
    /\ LET f == Finish(ScanState)
       IN /\ results' = f.returned
          /\ metrics_by_date' = f.days
    /\ pc' = "done"
    /\ UNCHANGED <<file, min_ts, max_ts, output, self, data, parts, alive>>

PrintReport ==
    /\ pc = "done"
    /\ output' = print_report(results)
    /\ pc' = "printed"
    /\ UNCHANGED <<file, metrics_by_date, min_ts, max_ts, results, self, data,
                   parts, alive>>

Next ==
    \/ \E line \in LogLines : ReadLine(line)
    \/ EndOfFile
    \/ PrintReport

Spec == Init /\ [][Next]_vars

(***************************************************************************)
(* What the file holds, read off the lines themselves.                     *)
(***************************************************************************)
\* a line that matches the grammar and whose date parses
HasTimestamp(line) ==
    line.kind = "entry" /\ line.fields.date.well_formed

Timestamped(f) == {i \in 1..Len(f) : HasTimestamp(f[i])}

\* hours since the start of day 0 in UTC
UtcHour(line) ==
    LET d == line.fields.date IN (24 * d.day + d.hour) - d.off

\* the calendar date the line's own text shows
OwnDate(line) == DATE_KEYS[line.fields.date.day]

\* latest minus earliest instant of the timestamped lines
Span(f) ==
    LET hours == {UtcHour(f[i]) : i \in Timestamped(f)}
    IN (CHOOSE hi \in hours : \A h \in hours : h <= hi)
       - (CHOOSE lo \in hours : \A h \in hours : lo <= h)

OwnDates(f) == {OwnDate(f[i]) : i \in Timestamped(f)}

OnDate(f, date) == {i \in Timestamped(f) : OwnDate(f[i]) = date}

Returned == pc \in {"done", "printed"}

ResultKeys == {results[i].key : i \in 1..Len(results)}

\* C2: a file with a timestamped line whose timestamps span less than 24
\* hours yields exactly the bucket "Summary", and its total_requests is the
\* number of timestamped lines, also when they fall on several dates.
C2_ShortSpanSummary ==
    (Returned /\ Timestamped(file) # {} /\ Span(file) < 24)
    => /\ Len(results) = 1
       /\ results[1].key = "Summary"
       /\ results[1].m.total_requests = Cardinality(Timestamped(file))

C2_Witness ==
    /\ pc = "done"
    /\ Cardinality(Timestamped(file)) = 2
    /\ Cardinality(OwnDates(file)) = 2
    /\ Len(file) = 3
    /\ Span(file) = 23
    /\ ResultKeys = {"Summary"}
    /\ results[1].m.total_requests = 2

\* C3: a file whose timestamps span 24 hours or more (exactly 24 included)
\* yields no "Summary" and one bucket per calendar date of its timestamped
\* lines, the date each timestamp shows in its own offset; each bucket's
\* total_requests is the number of timestamped lines of that date.
C3_LongSpanBuckets ==
    (Returned /\ Timestamped(file) # {} /\ Span(file) >= 24)
    => /\ "Summary" \notin ResultKeys
       /\ ResultKeys = OwnDates(file)
       /\ Len(results) = Cardinality(OwnDates(file))
       /\ \A i \in 1..Len(results) :
             results[i].m.total_requests
                 = Cardinality(OnDate(file, results[i].key))

C3_Witness ==
    /\ pc = "done"
    /\ Timestamped(file) # {}
    /\ Span(file) = 24
    /\ Len(file) = 3
    /\ ResultKeys = {"2025-12-09", "2025-12-11"}
    /\ \E i \in 1..Len(results) : results[i].m.total_requests = 2

\* C9: a file none of whose lines has a parseable timestamp yields an empty
\* Report: no "Summary" and no date bucket.
C9_EmptyReport ==
    (Returned /\ Timestamped(file) = {}) => results = <<>>

C9_Witness ==
    /\ pc = "done"
    /\ Len(file) = 3
    /\ Timestamped(file) = {}
    /\ \E i \in 1..3 : file[i].kind = "entry"
    /\ \E i \in 1..3 : file[i].kind = "blank"
    /\ results = <<>>

RECURSIVE ScanAll(_, _, _)
\* the scan state after the lines f[i..]
ScanAll(st, f, i) ==
    IF i > Len(f) THEN st ELSE ScanAll(ProcessLine(st, f[i]), f, i + 1)

Fresh == [metrics_by_date |-> <<>>, min_ts |-> None, max_ts |-> None]

\* the file without its blank, non-matching and unparseable-date lines
Cleaned(f) == SelectSeq(f, HasTimestamp)

\* C5: blank lines, lines that do not match and matching lines whose date
\* does not parse are skipped: after every line the buckets and the tracked
\* minimum and maximum are those of the file with these lines removed, and
\* so is the Report returned.
C5_SkippedLines ==
    LET clean == ScanAll(Fresh, Cleaned(file), 1)
    IN /\ min_ts = clean.min_ts
       /\ max_ts = clean.max_ts
       /\ pc = "scan" => metrics_by_date = clean.metrics_by_date
       /\ Returned => results = Finish(clean).returned

C5_Witness ==
    /\ pc = "done"
    /\ Len(file) = 3
    /\ file[1].kind = "invalid"
    /\ file[2].kind = "entry" /\ file[2].fields.date.well_formed
    /\ file[3].kind = "entry" /\ ~file[3].fields.date.well_formed
    /\ ResultKeys = {"Summary"}
    /\ results[1].m.total_requests = 1

Counts(c) == {c[i].n : i \in 1..Len(c)}

Consistent(m) ==
    /\ m.total_requests >= 1
    /\ m.total_requests = CounterSum(m.ip_counter)
    /\ m.total_requests = CounterSum(m.ua_counter)
    /\ m.total_requests = CounterSum(m.uri_counter)
    /\ \A n \in Counts(m.ip_counter) \cup Counts(m.ua_counter)
                   \cup Counts(m.uri_counter) : n >= 1
    /\ m.error_counts["4xx"] + m.error_counts["5xx"] <= m.total_requests
    /\ m.admin_ajax_count <= m.total_requests

\* C10: after every line, and in the Report returned, every aggregate has
\* total_requests >= 1, equal to the sum of each of its three tables, every
\* stored count >= 1, 4xx + 5xx <= total_requests and admin_ajax_count <=
\* total_requests.
C10_AggregatesConsistent ==
    /\ \A i \in 1..Len(metrics_by_date) : Consistent(metrics_by_date[i].m)
    /\ \A i \in 1..Len(results) : Consistent(results[i].m)

C10_Witness ==
    /\ pc = "done"
    /\ Len(metrics_by_date) = 2
    /\ ResultKeys = {"Summary"}
    /\ results[1].m.total_requests = 3
    /\ results[1].m.error_counts["4xx"] = 1
    /\ results[1].m.error_counts["5xx"] = 1
    /\ results[1].m.admin_ajax_count = 1

(***************************************************************************)
(* The ranked lists of print_report.                                       *)
(***************************************************************************)
Tables == {"top_ips", "top_uas", "top_uris"}

\* the value a line is counted under in a table
ValueIn(table, line) ==
    CASE table = "top_ips" -> line.fields.ip
      [] table = "top_uas" -> line.fields.user_agent
      [] table = "top_uris" -> RequestUri(line.fields.request)

\* the timestamped lines a printed bucket aggregates
LinesOf(title) ==
    IF title = "Summary" THEN Timestamped(file) ELSE OnDate(file, title)

Earliest(S) == CHOOSE i \in S : \A j \in S : i <= j

\* the first line among S counted under value v
FirstSeen(S, table, v) ==
    Earliest({i \in S : ValueIn(table, file[i]) = v})

Descending(list) ==
    \A i, j \in 1..Len(list) : i < j => list[i].n >= list[j].n

\* equal counts are listed by first occurrence among the bucket's lines
TiesByFirstSeen(title, table, list) ==
    \A i, j \in 1..Len(list) :
        (i < j /\ list[i].n = list[j].n)
        => FirstSeen(LinesOf(title), table, list[i].k)
               < FirstSeen(LinesOf(title), table, list[j].k)

\* the day bucket, first in order of creation, that counts value v
FirstDayOf(table, v) ==
    LET days == {d \in OwnDates(file) :
                    \E i \in OnDate(file, d) : ValueIn(table, file[i]) = v}
    IN CHOOSE d \in days :
           \A e \in days : Earliest(OnDate(file, d)) <= Earliest(OnDate(file, e))

\* v precedes w in the table merged from the day buckets
MergedBefore(table, v, w) ==
    LET dv == FirstDayOf(table, v)
        dw == FirstDayOf(table, w)
    IN IF dv = dw
       THEN FirstSeen(OnDate(file, dv), table, v)
                < FirstSeen(OnDate(file, dv), table, w)
       ELSE Earliest(OnDate(file, dv)) < Earliest(OnDate(file, dw))

TiesByMergeOrder(table, list) ==
    \A i, j \in 1..Len(list) :
        (i < j /\ list[i].n = list[j].n)
        => MergedBefore(table, list[i].k, list[j].k)

(***************************************************************************)
(* ReportSpec: the runs of Spec, and the runs over files of some twenty     *)
(* lines, each line from another client.                                   *)
(***************************************************************************)
MANY_IPS ==
    <<"10.0.1.1", "10.0.1.2", "10.0.1.3", "10.0.1.4", "10.0.1.5", "10.0.1.6",
      "10.0.1.7", "10.0.1.8", "10.0.1.9", "10.0.1.10", "10.0.1.11", "10.0.1.12",
      "10.0.1.13", "10.0.1.14", "10.0.1.15", "10.0.1.16", "10.0.1.17", "10.0.1.18",
      "10.0.1.19", "10.0.1.20", "10.0.1.21", "10.0.1.22">>

\* n lines of n clients, on one date or alternating between two dates an hour
\* apart, and then, if asked for, the last client once more
LongFile(n, two_days, again) ==
    LET date(i) == IF two_days /\ i % 2 = 0
                   THEN [well_formed |-> TRUE, day |-> 2, hour |-> 0, off |-> 0]
                   ELSE [well_formed |-> TRUE, day |-> 1, hour |-> 23, off |-> 0]
        entry(i) == EntryLine(Fields(MANY_IPS[i], "UA1", GET_ROOT, <<2,0,0>>,
                                     date(i)))
    IN [i \in 1..n |-> entry(i)] \o (IF again THEN <<entry(n)>> ELSE <<>>)

LongFiles ==
    {LongFile(n, two_days, again) :
        n \in 19..Len(MANY_IPS), two_days \in BOOLEAN, again \in BOOLEAN}

\* the loop of analyze_file over a long file, line after line
ReadLongFile(f) ==
    /\ pc = "scan"
    /\ Len(file) < Len(f)
    /\ file = SubSeq(f, 1, Len(file))
    /\ Scan(f[Len(file) + 1])

NextReport ==
    \/ Next
    \/ \E f \in LongFiles : ReadLongFile(f)

ReportSpec == Init /\ [][NextReport]_vars

\* C4 as stated: in every printed bucket, "Summary" included, each ranked
\* list has at most 20 entries in non-increasing count order, and of two
\* values with equal counts the one that occurred first in the file comes
\* first.
C4_TiesByFileOrder ==
    pc = "printed" =>
        \A b \in 1..Len(output) : \A t \in Tables :
            /\ Len(output[b][t]) <= 20
            /\ Descending(output[b][t])
            /\ TiesByFirstSeen(output[b].title, t, output[b][t])

\* C4 amended: each ranked list has at most 20 entries in non-increasing
\* count order; in a date bucket, of two values with equal counts the one
\* that occurred first among that date's lines comes first; in "Summary",
\* the values of the day bucket created earlier come first, and within one
\* day bucket the value that occurred first among that date's lines.
C4_TiesByTableOrder ==
    pc = "printed" =>
        \A b \in 1..Len(output) : \A t \in Tables :
            /\ Len(output[b][t]) <= 20
            /\ Descending(output[b][t])
            /\ IF output[b].title = "Summary"
               THEN TiesByMergeOrder(t, output[b][t])
               ELSE TiesByFirstSeen(output[b].title, t, output[b][t])

C4_Witness ==
    /\ pc = "printed"
    /\ Len(output) = 1
    /\ output[1].title = "Summary"
    /\ Len(metrics_by_date) = 2
    /\ Len(results[1].m.ip_counter) = 22
    /\ Len(output[1].top_ips) = 20
    /\ output[1].top_ips[1].n = 2
    /\ ~TiesByFirstSeen("Summary", "top_ips", output[1].top_ips)

(***************************************************************************)
(* UpdateSpec: one LogMetrics takes records through update().              *)
(***************************************************************************)
NoScan ==
    /\ file = <<>>
    /\ metrics_by_date = <<>>
    /\ min_ts = None
    /\ max_ts = None
    /\ results = <<>>
    /\ output = <<>>

SomeDate == [well_formed |-> TRUE, day |-> 1, hour |-> 23, off |-> 0]

\* every request line with two statuses, every status with two request lines
UpdateRecords ==
    {Fields("192.168.1.1", "UA1", request, status, SomeDate) :
        <<request, status>> \in
            {rs \in Requests \X Statuses :
                \/ rs[1] \in {GET_ROOT, GET_AJAX}
                \/ rs[2] \in {<<2,0,0>>, <<4,9,9>>}}}

InitUpdate ==
    /\ pc = "update"
    /\ self = NewLogMetrics
    /\ data = None
    /\ parts = <<>>
    /\ alive = {}
    /\ NoScan

Update(d) ==
    /\ pc = "update"
    /\ self.total_requests < MaxUpdates
    /\ self' = update(self, d)
    /\ data' = d
    /\ UNCHANGED <<pc, file, metrics_by_date, min_ts, max_ts, results, output,
                   parts, alive>>

NextUpdate == \E d \in UpdateRecords : Update(d)

UpdateSpec == InitUpdate /\ [][NextUpdate]_vars

\* C6: every update() adds 1 to total_requests; a status in 400..499 adds 1
\* to the 4xx counter only, one in 500..599 adds 1 to the 5xx counter only,
\* any other status leaves both; no update changes both error counters.
C6_StatusClasses ==
    [][LET status == int(data'.status)
           e4 == self.error_counts["4xx"]
           e5 == self.error_counts["5xx"]
           e4n == self'.error_counts["4xx"]
           e5n == self'.error_counts["5xx"]
       IN /\ self'.total_requests = self.total_requests + 1
          /\ status \in 400..499 => (e4n = e4 + 1 /\ e5n = e5)
          /\ status \in 500..599 => (e4n = e4 /\ e5n = e5 + 1)
          /\ status \notin 400..599 => (e4n = e4 /\ e5n = e5)
          /\ ~(e4n # e4 /\ e5n # e5)]_vars

C6_Witness ==
    /\ pc = "update"
    /\ self.total_requests = 2
    /\ data.status = <<5,9,9>>
    /\ self.error_counts["4xx"] = 1
    /\ self.error_counts["5xx"] = 1

HasWhitespace(s) == \E i \in 1..Len(s) : s[i] \in Whitespace

\* the record is counted in table `after` under key, and under nothing else
CountedUnder(before, after, key) ==
    /\ CounterGet(after, key) = CounterGet(before, key) + 1
    /\ \A k \in (CounterKeys(before) \cup CounterKeys(after)) \ {key} :
           CounterGet(after, k) = CounterGet(before, k)

\* the admin-ajax counter goes up by 1 exactly for a target holding the name
AdminAjaxFollows(target) ==
    self'.admin_ajax_count
        = self.admin_ajax_count
              + (IF Contains(target, ADMIN_AJAX) THEN 1 ELSE 0)

\* the target as the claim words it: the second token, or the whole request
\* line when the line holds no whitespace
StatedTargets(request) ==
    IF ~HasWhitespace(request) THEN {request}
    ELSE IF Len(split(request)) >= 2 THEN {split(request)[2]}
    ELSE {}

\* C8 as stated: update() counts the record under exactly one target, the
\* second whitespace-separated token of the request line, or the whole line
\* if it contains no whitespace, and adds 1 to the admin-ajax counter exactly
\* when that target contains 'admin-ajax.php'.
C8_TargetNoWhitespace ==
    [][\E target \in StatedTargets(data'.request) :
           /\ CountedUnder(self.uri_counter, self'.uri_counter, target)
           /\ AdminAjaxFollows(target)]_vars

\* C8 amended: the target is the second whitespace-separated token of the
\* request line, or the whole raw line if it has fewer than two tokens
\* (no whitespace, or whitespace only at its ends); the rest as stated.
C8_TargetFewerThanTwoTokens ==
    [][LET tokens == split(data'.request)
           target == IF Len(tokens) >= 2 THEN tokens[2] ELSE data'.request
       IN /\ CountedUnder(self.uri_counter, self'.uri_counter, target)
          /\ AdminAjaxFollows(target)]_vars

C8_Witness ==
    /\ pc = "update"
    /\ self.total_requests = 2
    /\ data.request = GET_TRAILING_SPACE
    /\ CounterGet(self.uri_counter, GET_TRAILING_SPACE) = 1
    /\ CounterGet(self.uri_counter, <<"/">> \o ADMIN_AJAX) = 1
    /\ self.admin_ajax_count = 1

(***************************************************************************)
(* MergeSpec: the records go to one LogMetrics directly and, each to one   *)
(* of three others; then the three are folded with merge() in any order.   *)
(***************************************************************************)
Parts == {"a", "b", "c"}

MergeRecords ==
    {Fields("192.168.1.1", "UA1", GET_ROOT, <<2,0,0>>, SomeDate),
     Fields("10.0.0.1", "UA1", GET_AJAX, <<4,0,4>>, SomeDate),
     Fields("192.168.1.1", "UA2", GET_AJAX, <<5,0,3>>, SomeDate),
     Fields("10.0.0.1", "UA2", DASH, <<2,0,0>>, SomeDate)}

InitMerge ==
    /\ pc = "feed"
    /\ self = NewLogMetrics
    /\ data = None
    /\ parts = [p \in Parts |-> NewLogMetrics]
    /\ alive = Parts
    /\ NoScan

Feed(d, p) ==
    /\ pc = "feed"
    /\ self.total_requests < MaxRecords
    /\ self' = update(self, d)
    /\ parts' = [parts EXCEPT ![p] = update(parts[p], d)]
    /\ data' = d
    /\ UNCHANGED <<pc, alive, file, metrics_by_date, min_ts, max_ts, results,
                   output>>

StartFold ==
    /\ pc = "feed"
    /\ pc' = "fold"
    /\ UNCHANGED <<self, data, parts, alive, file, metrics_by_date, min_ts,
                   max_ts, results, output>>

Merge(a, b) ==
    /\ pc = "fold"
    /\ a \in alive
    /\ b \in alive
    /\ a # b
    /\ LET r == merge(parts[a], parts[b])
       IN parts' = [parts EXCEPT ![a] = r.receiver, ![b] = r.argument]
    /\ alive' = alive \ {b}
    /\ UNCHANGED <<pc, self, data, file, metrics_by_date, min_ts, max_ts,
                   results, output>>

NextMerge ==
    \/ \E d \in MergeRecords, p \in Parts : Feed(d, p)
    \/ StartFold
    \/ \E a, b \in Parts : Merge(a, b)

MergeSpec == InitMerge /\ [][NextMerge]_vars

AsMapping(c) == {<<c[i].k, c[i].n>> : i \in 1..Len(c)}

SameAggregate(m, n) ==
    /\ m.total_requests = n.total_requests
    /\ m.admin_ajax_count = n.admin_ajax_count
    /\ m.error_counts["4xx"] = n.error_counts["4xx"]
    /\ m.error_counts["5xx"] = n.error_counts["5xx"]
    /\ AsMapping(m.ip_counter) = AsMapping(n.ip_counter)
    /\ AsMapping(m.ua_counter) = AsMapping(n.ua_counter)
    /\ AsMapping(m.uri_counter) = AsMapping(n.uri_counter)

\* C1: records split into parts, each part fed to its own LogMetrics and the
\* parts folded with merge() in any order, give the totals, counters and
\* value-to-count tables of one LogMetrics fed all the records.
C1_MergeEqualsDirect ==
    (pc = "fold" /\ Cardinality(alive) = 1)
    => \A a \in alive : SameAggregate(parts[a], self)

C1_Witness ==
    /\ pc = "fold"
    /\ Cardinality(alive) = 1
    /\ self.total_requests = 3
    /\ self.admin_ajax_count >= 1
    /\ \A b \in Parts \ alive : parts[b].total_requests = 1
    /\ \A a \in alive : /\ parts[a].total_requests = 3
                        /\ parts[a].ip_counter # self.ip_counter

(***************************************************************************)
(* FrameSpec: the runs of MergeSpec and the runs of Spec, the two places   *)
(* merge() is called from.                                                 *)
(***************************************************************************)
FrameSpec == (Init \/ InitMerge) /\ [][Next \/ NextMerge]_vars

====
